---------------------------- MODULE Spec2Model ----------------------------
(***************************************************************************)
(* A model of dna_codec.cpp: the binary <-> nucleotide codec, the padding  *)
(* loop, the PROMOTER/TERMINATOR/MARKER frame and the four command line    *)
(* handlers (-e, -d, -i, -o).                                              *)
(*                                                                         *)
(* A std::string is a sequence of byte values 0..255 ('A' is 65, '0' is    *)
(* 48, ' ' is 32, ':' is 58).  Positions are 0-based as in the source; the *)
(* TLA+ sequences are 1-based, so s[i] of the source is s[i+1] here.       *)
(*                                                                         *)
(* A size_t is 64 bits wide and every string of the model is short, so a   *)
(* size_t value is either a small number or within a small distance below  *)
(* 2^64.  It is represented by the integer congruent to it modulo 2^64     *)
(* that is small in absolute value: npos (2^64 - 1) is -1, npos + 1 is 0,  *)
(* and a negative representative stands for a value larger than any        *)
(* string.                                                                 *)
(***************************************************************************)
EXTENDS Integers, Sequences, FiniteSets, TLC

VARIABLES fs, call, locals, ret, status, stdout, stderr, written

vars == <<fs, call, locals, ret, status, stdout, stderr, written>>

-----------------------------------------------------------------------------
(* Characters and string constants of the source *)

Space == 32
Colon == 58
Dot == 46
NUL == 0
npos == -1

PROMOTER == <<65, 84, 71, 67, 65, 84, 71, 67>>          \* "ATGCATGC"
TERMINATOR == <<84, 84, 65, 65, 84, 84, 65, 65>>        \* "TTAATTAA"
MARKER == <<71, 71, 67, 67, 71, 71, 67, 67>>            \* "GGCCGGCC"

StringTag == <<83, 84, 82, 73, 78, 71, 58>>             \* "STRING:"
FileTag == <<70, 73, 76, 69, 58>>                       \* "FILE:"
DnaSuffix == <<100, 110, 97>>                           \* "dna"
DnaExtension == <<46, 100, 110, 97>>                    \* ".dna"

-----------------------------------------------------------------------------
(* std::string members used by the source *)

Min(a, b) == IF a <= b THEN a ELSE b

\* s.substr(pos, count) throws std::out_of_range when pos > s.size()
SubstrThrows(s, pos) == pos < 0 \/ pos > Len(s)

\* s.substr(pos, count) for pos <= s.size(): the characters [pos, pos+count),
\* cut at the end of s; a count beyond the end (npos included) takes the rest
Substr(s, pos, count) ==
    LET n == IF count < 0 THEN Len(s) - pos ELSE Min(count, Len(s) - pos)
    IN  SubSeq(s, pos + 1, pos + n)

\* s.find(ch, pos): the first position >= pos holding ch, else npos
Find(s, ch, pos) ==
    IF pos < 0 \/ pos >= Len(s) THEN npos
    ELSE LET hits == {i \in pos..(Len(s) - 1) : s[i + 1] = ch}
         IN  IF hits = {} THEN npos
             ELSE CHOOSE i \in hits : \A j \in hits : i <= j

\* s.find_last_of(ch): the last position holding ch, else npos
FindLastOf(s, ch) ==
    LET hits == {i \in 0..(Len(s) - 1) : s[i + 1] = ch}
    IN  IF hits = {} THEN npos
        ELSE CHOOSE i \in hits : \A j \in hits : j <= i

\* s.rfind(prefix, 0) == 0: s starts with prefix
StartsWith(s, prefix) ==
    Len(s) >= Len(prefix) /\ SubSeq(s, 1, Len(prefix)) = prefix

-----------------------------------------------------------------------------
(* The codec functions *)

\* the lookup binaryToNucleotide[sub] of an unordered_map<string, char>:
\* operator[] inserts and returns a value-initialised char for a missing key
PairToNucleotide(sub) ==
    IF sub = <<48, 48>> THEN 65             \* "00" -> 'A'
    ELSE IF sub = <<48, 49>> THEN 67        \* "01" -> 'C'
    ELSE IF sub = <<49, 48>> THEN 71        \* "10" -> 'G'
    ELSE IF sub = <<49, 49>> THEN 84        \* "11" -> 'T'
    ELSE NUL

RECURSIVE BinaryToNucleotideFrom(_, _)
BinaryToNucleotideFrom(binaryStr, i) ==
    IF i < Len(binaryStr)
    THEN <<PairToNucleotide(Substr(binaryStr, i, 2))>>
             \o BinaryToNucleotideFrom(binaryStr, i + 2)
    ELSE <<>>

binaryToNucleotide(binaryStr) == BinaryToNucleotideFrom(binaryStr, 0)

\* the table with the codes of 'C' and 'G' exchanged
NucleotideToPairSwapped(ch) ==
    IF ch = 65 THEN <<48, 48>>
    ELSE IF ch = 67 THEN <<49, 48>>
    ELSE IF ch = 71 THEN <<48, 49>>
    ELSE IF ch = 84 THEN <<49, 49>>
    ELSE <<>>

\* the lookup nucleotideToBinary[ch] of an unordered_map<char, string>:
\* operator[] inserts and returns an empty string for a missing key
NucleotideToPair(ch) ==
    IF ch = 65 THEN <<48, 48>>
    ELSE IF ch = 67 THEN <<48, 49>>
    ELSE IF ch = 71 THEN <<49, 48>>
    ELSE IF ch = 84 THEN <<49, 49>>
    ELSE <<>>

RECURSIVE nucleotideToBinary(_)
nucleotideToBinary(dnaSeq) ==
    IF dnaSeq = <<>> THEN <<>>
    ELSE NucleotideToPair(Head(dnaSeq)) \o nucleotideToBinary(Tail(dnaSeq))

\* the loop written do { ... } while: a space is appended before the first test
RECURSIVE PadAtLeastOnce(_)
PadAtLeastOnce(paddedMessage) ==
    LET next == Append(paddedMessage, Space)
    IN  IF (4 * Len(next)) % 3 # 0 THEN PadAtLeastOnce(next) ELSE next

\* the loop testing length % 4 in place of (4 * length) % 3
RECURSIVE PadToMultipleOf4(_)
PadToMultipleOf4(paddedMessage) ==
    IF Len(paddedMessage) % 4 # 0
    THEN PadToMultipleOf4(Append(paddedMessage, Space))
    ELSE paddedMessage

\* the padding loop of messageToBinary
RECURSIVE PadToCodon(_)
PadToCodon(paddedMessage) ==
    IF (4 * Len(paddedMessage)) % 3 # 0
    THEN PadToCodon(Append(paddedMessage, Space))
    ELSE paddedMessage

\* bitset<8>(ch).to_string(): the low 8 bits, most significant first
ByteToBits(ch) == [k \in 1..8 |-> 48 + ((ch \div (2 ^ (8 - k))) % 2)]

RECURSIVE BytesToBinary(_)
BytesToBinary(message) ==
    IF message = <<>> THEN <<>>
    ELSE ByteToBits(Head(message)) \o BytesToBinary(Tail(message))

messageToBinary(message) == BytesToBinary(PadToCodon(message))

\* bitset<8>(byte).to_ulong() for a string of at most 8 characters '0'/'1':
\* the last character is bit 0
RECURSIVE BitsToByte(_)
BitsToByte(byte) ==
    IF byte = <<>> THEN 0
    ELSE 2 * BitsToByte(SubSeq(byte, 1, Len(byte) - 1))
             + (byte[Len(byte)] - 48)

RECURSIVE BinaryToMessageFrom(_, _)
BinaryToMessageFrom(binaryStr, i) ==
    IF i < Len(binaryStr)
    THEN <<BitsToByte(Substr(binaryStr, i, 8))>>
             \o BinaryToMessageFrom(binaryStr, i + 8)
    ELSE <<>>

binaryToMessage(binaryStr) == BinaryToMessageFrom(binaryStr, 0)

-----------------------------------------------------------------------------
(* The frame *)

\* PROMOTER + encoded + TERMINATOR + MARKER
Frame(nucleotides) == PROMOTER \o nucleotides \o TERMINATOR \o MARKER

\* the count with MARKER's length left out
CleanCountNoMarker(dnaSeq) ==
    Len(dnaSeq) - Len(PROMOTER) - Len(TERMINATOR)

\* the count argument of the decoders' substr: size_t arithmetic, so a
\* sequence shorter than the three constants gives a count beyond any string
CleanCount(dnaSeq) ==
    Len(dnaSeq) - Len(PROMOTER) - Len(TERMINATOR) - Len(MARKER)

\* dnaSeq.substr(PROMOTER.length(), length - 8 - 8 - 8), where it does not throw
CleanDNA(dnaSeq) == Substr(dnaSeq, Len(PROMOTER), CleanCount(dnaSeq))

-----------------------------------------------------------------------------
(* The file system as the handlers see it: a map from names to contents *)

\* a stream is opened through fileName.c_str(), which ends at the first NUL
CName(fileName) ==
    LET z == Find(fileName, NUL, 0)
    IN  IF z = npos THEN fileName ELSE Substr(fileName, 0, z)

\* ifstream: the named file exists
CanOpen(files, fileName) == CName(fileName) \in DOMAIN files

ReadFile(files, fileName) == files[CName(fileName)]

\* ofstream: the file can be created in the working directory
CanCreate(fileName) ==
    /\ CName(fileName) # <<>>
    /\ \A i \in 1..Len(CName(fileName)) : CName(fileName)[i] # 47    \* '/'

WriteFile(files, w) ==
    [n \in DOMAIN files \cup {w.name} |->
        IF n = w.name THEN w.content ELSE files[n]]

RECURSIVE WriteAll(_, _)
WriteAll(files, ws) ==
    IF ws = <<>> THEN files ELSE WriteAll(WriteFile(files, Head(ws)), Tail(ws))

-----------------------------------------------------------------------------
(* What one run of a handler does: its local values, what it prints, the   *)
(* files it writes, and whether it returns or ends in std::terminate.      *)
(* The fields of every record are written in the order in which their      *)
(* names first occur in this module, the order TLC keeps them in.          *)

NoLocals == [none |-> TRUE]

Outcome(l, so, se, w) ==
    [locals |-> l, ret |-> TRUE, status |-> "returned",
     stdout |-> so, stderr |-> se, written |-> w]

\* an uncaught std::out_of_range: nothing is printed or written by the handler
Terminated(l) ==
    [locals |-> l, ret |-> FALSE, status |-> "terminated",
     stdout |-> <<>>, stderr |-> <<>>, written |-> <<>>]

EncodedLabel == "1.1 || Encoded: "
DecodedLabel == "Decoded: "
DecodedToFileLabel == "Decoded to file: "

doStringEncode(message) ==
    LET binaryMessage == messageToBinary(StringTag \o message)
        encoded == binaryToNucleotide(binaryMessage)
        finalEncoded == Frame(encoded)
    IN  Outcome([binaryMessage |-> binaryMessage, encoded |-> encoded,
                 finalEncoded |-> finalEncoded],
                <<[label |-> EncodedLabel, text |-> finalEncoded]>>, <<>>, <<>>)

doStringDecode(dnaSeq) ==
    IF SubstrThrows(dnaSeq, Len(PROMOTER)) THEN Terminated(NoLocals)
    ELSE
    LET cleanDNA == CleanDNA(dnaSeq)
        decodedBinary == nucleotideToBinary(cleanDNA)
        decoded == binaryToMessage(decodedBinary)
        l == [cleanDNA |-> cleanDNA, decodedBinary |-> decodedBinary,
              decoded |-> decoded]
    IN  IF StartsWith(decoded, StringTag)
        THEN Outcome(l, <<[label |-> DecodedLabel,
                           text |-> Substr(decoded, 7, npos)]>>, <<>>, <<>>)
        ELSE Outcome(l, <<>>, <<>>, <<>>)

doFileEncode(files, fileName) ==
    LET fileContents ==
            IF CanOpen(files, fileName) THEN ReadFile(files, fileName) ELSE <<>>
        header == FileTag \o fileName \o <<Colon>>
        binaryFileContents == messageToBinary(header \o fileContents)
        encoded == binaryToNucleotide(binaryFileContents)
        finalEncoded == Frame(encoded)
        l == [encoded |-> encoded, finalEncoded |-> finalEncoded,
              fileContents |-> fileContents, header |-> header]
    IN  IF CanCreate(fileName \o DnaExtension)
        THEN Outcome(l, <<>>, <<>>,
                     <<[name |-> CName(fileName \o DnaExtension),
                        content |-> finalEncoded]>>)
        ELSE Outcome(l, <<>>, <<>>, <<>>)

\* lines 146-149: the two find calls and the two substr calls
FileHeader(decoded) ==
    LET firstColon == Find(decoded, Colon, 5)
        secondColon == Find(decoded, Colon, firstColon + 1)
    IN  [firstColon |-> firstColon, secondColon |-> secondColon,
         throws |-> SubstrThrows(decoded, firstColon + 1)
                       \/ SubstrThrows(decoded, secondColon + 1),
         originalFileName |->
             IF SubstrThrows(decoded, firstColon + 1) THEN <<>>
             ELSE Substr(decoded, firstColon + 1, secondColon - firstColon - 1),
         fileContent |->
             IF SubstrThrows(decoded, secondColon + 1) THEN <<>>
             ELSE Substr(decoded, secondColon + 1, npos)]

doFileDecode(files, dnaFileName) ==
    IF Substr(dnaFileName, FindLastOf(dnaFileName, Dot) + 1, npos) # DnaSuffix
    THEN Outcome(NoLocals, <<>>,
                 <<"Invalid file suffix, expecting .dna file.">>, <<>>)
    ELSE IF ~CanOpen(files, dnaFileName)
    THEN Outcome(NoLocals, <<>>, <<"Could not open file: ">>, <<>>)
    ELSE
    LET dnaContents == ReadFile(files, dnaFileName)
    IN  IF SubstrThrows(dnaContents, Len(PROMOTER))
        THEN Terminated([dnaContents |-> dnaContents])
        ELSE
        LET cleanDNA == CleanDNA(dnaContents)
            decodedBinary == nucleotideToBinary(cleanDNA)
            decoded == binaryToMessage(decodedBinary)
            h == FileHeader(decoded)
            l == [cleanDNA |-> cleanDNA, decodedBinary |-> decodedBinary,
                  decoded |-> decoded, dnaContents |-> dnaContents]
        IN  IF ~StartsWith(decoded, FileTag)
            THEN Outcome(l, <<>>, <<"Invalid DNA content header.">>, <<>>)
            ELSE IF h.throws THEN Terminated(l)
            ELSE IF h.originalFileName = <<>> \/ h.fileContent = <<>>
            THEN Outcome(l, <<>>,
                         <<"Invalid DNA content header or content.">>, <<>>)
            ELSE IF ~CanCreate(h.originalFileName)
            THEN Outcome(l, <<>>, <<"Could not create output file.">>, <<>>)
            ELSE Outcome(l, <<[label |-> DecodedToFileLabel,
                               text |-> h.originalFileName]>>, <<>>,
                         <<[name |-> CName(h.originalFileName),
                            content |-> h.fileContent]>>)

-----------------------------------------------------------------------------
(* Bounds of the model and the inputs drawn within them *)

MaxTextLen == 2         \* longest message given to -e
MaxNameLen == 1         \* longest file name given to -i
MaxContentLen == 2      \* longest content of a file given to -i
MaxPayloadLen == 3      \* longest message given to messageToBinary
MaxBitLen == 9          \* longest string given to binaryToNucleotide/binaryToMessage
MaxDnaLen == 4          \* longest string given to nucleotideToBinary

SeqsUpTo(S, n) == UNION {[1..k -> S] : k \in 0..n}

TextBytes == {65, Space, 200}               \* 'A', ' ', a byte above 0x7f
NameBytes == {65, Colon}                    \* 'A', ':'
ContentBytes == {66, Colon, 200}            \* 'B', ':', a byte above 0x7f
PayloadBytes == {65, Colon, 200}
BitChars == {48, 49}                        \* '0', '1'
DnaChars == {65, 67, 71, 84, 78}            \* 'A', 'C', 'G', 'T', 'N'

Texts == SeqsUpTo(TextBytes, MaxTextLen)
FileNames == SeqsUpTo(NameBytes, MaxNameLen) \ {<<>>}
Contents == SeqsUpTo(ContentBytes, MaxContentLen)
Payloads == SeqsUpTo(PayloadBytes, MaxPayloadLen)
BitStrings == SeqsUpTo(BitChars, MaxBitLen)
DnaSeqs == SeqsUpTo(DnaChars, MaxDnaLen)

\* what a user may pass to -d after an encoding was printed: the printed
\* sequence, any prefix of it, or the sequence with one character replaced
Edits(seq) ==
    {SubSeq(seq, 1, n) : n \in 0..Len(seq)}
        \cup {[seq EXCEPT ![i] = ch] : i \in 1..Len(seq), ch \in DnaChars}

\* a .dna file that was not written by -i: a payload framed without padding,
\* a frame with a wrong first character, a file shorter than PROMOTER
HandMadePayloads ==
    {<<>>, FileTag, FileTag \o <<66>>, FileTag \o <<Colon, 66>>,
     FileTag \o <<65, Colon, 66, Colon, 66>>, StringTag \o <<66>>}

HandMadeDna ==
    {Frame(binaryToNucleotide(BytesToBinary(p))) : p \in HandMadePayloads}
        \cup {[Frame(binaryToNucleotide(BytesToBinary(p))) EXCEPT ![1] = 84] :
                 p \in HandMadePayloads}
        \cup {<<65, 84, 71>>}

-----------------------------------------------------------------------------
(* The state machine: one action per run of the program (main, lines 66-90) *)
(* or per call of a codec function.                                         *)

NoCall == [op |-> "none", arg |-> <<>>]

Run(c, o) ==
    /\ call' = c
    /\ locals' = o.locals
    /\ ret' = o.ret
    /\ status' = o.status
    /\ stdout' = o.stdout
    /\ stderr' = o.stderr
    /\ written' = o.written
    /\ fs' = WriteAll(fs, o.written)

Fresh ==
    /\ call = NoCall
    /\ locals = NoLocals
    /\ ret = FALSE
    /\ status = "none"
    /\ stdout = <<>>
    /\ stderr = <<>>
    /\ written = <<>>

\* -e <message>
Main_e ==
    /\ \E message \in Texts :
        Run([op |-> "doStringEncode", arg |-> message], doStringEncode(message))

\* -d <sequence>
Main_d ==
    /\ stdout # <<>>
    /\ stdout[1].label = EncodedLabel
    /\ \E dnaSeq \in Edits(stdout[1].text) :
           Run([op |-> "doStringDecode", arg |-> dnaSeq], doStringDecode(dnaSeq))

\* -i <file>
Main_i ==
    /\ \E fileName \in FileNames :
        Run([op |-> "doFileEncode", arg |-> fileName], doFileEncode(fs, fileName))

\* -o <file>
Main_o ==
    /\ \E dnaFileName \in DOMAIN fs \cup {n \o DnaExtension : n \in FileNames} :
        Run([op |-> "doFileDecode", arg |-> dnaFileName],
            doFileDecode(fs, dnaFileName))

Returned(c, v, l) ==
    /\ call' = c
    /\ ret' = v
    /\ locals' = l
    /\ status' = "returned"
    /\ UNCHANGED <<fs, stdout, stderr, written>>

\* a codec function is given a drawn input in the fresh state, or the value
\* the function before it in the pipeline returned
Given(inputs, producer) ==
    IF call.op = "none" THEN inputs
    ELSE IF call.op = producer THEN {ret}
    ELSE {}

Origin == IF call.op = "none" THEN "input" ELSE call.op

CallMessageToBinary ==
    \E message \in Given(Payloads, "none") :
        Returned([op |-> "messageToBinary", arg |-> message, from |-> Origin],
                 messageToBinary(message),
                 [paddedMessage |-> PadToCodon(message)])

CallBinaryToNucleotide ==
    \E binaryStr \in Given(BitStrings, "messageToBinary") :
        Returned([op |-> "binaryToNucleotide", arg |-> binaryStr, from |-> Origin],
                 binaryToNucleotide(binaryStr), locals)

CallNucleotideToBinary ==
    \E dnaSeq \in Given(DnaSeqs, "binaryToNucleotide") :
        Returned([op |-> "nucleotideToBinary", arg |-> dnaSeq, from |-> Origin],
                 nucleotideToBinary(dnaSeq), locals)

CallBinaryToMessage ==
    \E binaryStr \in Given(BitStrings, "nucleotideToBinary") :
        Returned([op |-> "binaryToMessage", arg |-> binaryStr, from |-> Origin],
                 binaryToMessage(binaryStr), locals)

\* the string modes
InitString == fs = <<>> /\ Fresh
NextString == Main_e \/ Main_d
SpecString == InitString /\ [][NextString]_vars

\* the file modes, started with one file in the working directory
InitFile ==
    /\ Fresh
    /\ \/ \E n \in FileNames, c \in Contents : fs = [x \in {n} |-> c]
       \/ \E n \in FileNames, d \in HandMadeDna :
              fs = [x \in {n \o DnaExtension} |-> d]
NextFile == Main_i \/ Main_o
SpecFile == InitFile /\ [][NextFile]_vars

\* the codec functions called on their own
InitCodec == fs = <<>> /\ Fresh
NextCodec ==
    \/ CallMessageToBinary
    \/ CallBinaryToNucleotide
    \/ CallNucleotideToBinary
    \/ CallBinaryToMessage
SpecCodec == InitCodec /\ [][NextCodec]_vars

-----------------------------------------------------------------------------
(* Properties *)

Nucleotides == {65, 67, 71, 84}

Spaces(k) == [i \in 1..k |-> Space]

EndsWith(s, suffix) ==
    Len(s) >= Len(suffix)
        /\ SubSeq(s, Len(s) - Len(suffix) + 1, Len(s)) = suffix

\* the frame a validating decoder accepts
ValidFrame(s) ==
    /\ Len(s) >= Len(PROMOTER) + Len(TERMINATOR) + Len(MARKER)
    /\ StartsWith(s, PROMOTER)
    /\ EndsWith(s, TERMINATOR \o MARKER)

\* the run reported an error: a message on stderr or an abnormal end
Failed == status = "terminated" \/ stderr # <<>>

\* a decoding run directly follows the encoding run whose output it is given
DecodesLastEncoding ==
    \/ /\ call.op = "doStringEncode"
       /\ call'.op = "doStringDecode"
       /\ call'.arg = stdout[1].text
    \/ /\ call.op = "doFileEncode"
       /\ call'.op = "doFileDecode"
       /\ written # <<>>
       /\ call'.arg = written[1].name

\* C1: File round-trip: -o on the file that -i wrote for a file whose name
\* holds no colon writes one file, with that name and exactly that content.
FileRoundTrip ==
    [][(DecodesLastEncoding /\ call.op = "doFileEncode"
            /\ \A i \in 1..Len(call.arg) : call.arg[i] # Colon)
        => written' = <<[name |-> call.arg, content |-> locals.fileContents]>>]_vars

\* C2: String round-trip: -d on the sequence that -e printed for T returns
\* normally and prints "Decoded: " followed by T and then only the spaces
\* that the encoding appended.
StringRoundTrip ==
    [][(DecodesLastEncoding /\ call.op = "doStringEncode")
        => /\ status' = "returned"
           /\ stdout' = <<[label |-> DecodedLabel,
                           text |-> call.arg \o
                               Spaces(Len(locals.binaryMessage) \div 8
                                          - Len(StringTag) - Len(call.arg))]>>]_vars

StringRoundTripWitness ==
    /\ call.op = "doStringDecode"
    /\ status = "returned"
    /\ \E T \in Texts :
           /\ Len(T) = 1
           /\ call.arg = doStringEncode(T).stdout[1].text
           /\ stdout = <<[label |-> DecodedLabel, text |-> T \o <<Space>>]>>

\* C3: Alignment: the nucleotide sequence binaryToNucleotide returns for the
\* bit-string messageToBinary returned has a length that is a multiple of 3
\* and is 4 times the byte length of the padded payload.
Alignment ==
    (call.op = "binaryToNucleotide" /\ call.from = "messageToBinary")
        => /\ Len(ret) % 3 = 0
           /\ Len(ret) = 4 * Len(locals.paddedMessage)

AlignmentWitness ==
    /\ call.op = "binaryToNucleotide"
    /\ call.from = "messageToBinary"
    /\ Len(locals.paddedMessage) = 3
    /\ Len(ret) = 12

\* C4: Frame validation: a decoding run whose input is shorter than the frame
\* overhead, does not start with PROMOTER or does not end with
\* TERMINATOR+MARKER reports an error, prints no message and writes no file.
FrameValidation ==
    /\ (call.op = "doStringDecode" /\ ~ValidFrame(call.arg))
           => (Failed /\ stdout = <<>> /\ written = <<>>)
    /\ (call.op = "doFileDecode" /\ "dnaContents" \in DOMAIN locals
                /\ ~ValidFrame(locals.dnaContents))
           => (Failed /\ stdout = <<>> /\ written = <<>>)

\* C5: Invalid symbol: nucleotideToBinary does not return a bit-string for a
\* sequence holding a character outside A, C, G, T.
InvalidSymbolRejected ==
    (call.op = "nucleotideToBinary"
         /\ \E i \in 1..Len(call.arg) : call.arg[i] \notin Nucleotides)
        => status # "returned"

\* C6: FILE header parsing: for a decoded payload starting with "FILE:", the
\* file name is what lies between the tag and the first colon after it and
\* the content is everything after that colon; the run writes exactly that
\* file, or reports an error and writes nothing when the colon is missing or
\* either part is empty.
FileHeaderParsing ==
    (call.op = "doFileDecode" /\ "decoded" \in DOMAIN locals
         /\ StartsWith(locals.decoded, FileTag))
        => LET decoded == locals.decoded
               colon == Find(decoded, Colon, Len(FileTag))
               fileName == Substr(decoded, Len(FileTag), colon - Len(FileTag))
               fileContent == Substr(decoded, colon + 1, npos)
           IN  IF colon = npos \/ fileName = <<>> \/ fileContent = <<>>
               THEN Failed /\ written = <<>>
               ELSE written = <<[name |-> fileName, content |-> fileContent]>>

\* C7: Misaligned bits: binaryToMessage does not return a message for a
\* bit-string whose length is not a multiple of 8.
MisalignedBitsRejected ==
    (call.op = "binaryToMessage" /\ Len(call.arg) % 8 # 0)
        => status # "returned"

\* C8: Alphabet closure: every character binaryToNucleotide returns is one of
\* A, C, G, T, for input of even or odd length; for even length the result
\* has half the length and its i-th character is the image of bits 2i, 2i+1
\* under 00->A, 01->C, 10->G, 11->T.
AlphabetClosure ==
    call.op = "binaryToNucleotide"
        => /\ \A i \in 1..Len(ret) : ret[i] \in Nucleotides
           /\ Len(call.arg) % 2 = 0
                  => /\ Len(ret) = Len(call.arg) \div 2
                     /\ \A i \in 1..Len(ret) :
                            ret[i] = <<65, 67, 71, 84>>[
                                2 * (call.arg[2 * i - 1] - 48)
                                    + (call.arg[2 * i] - 48) + 1]

\* C9: Frame structure: the sequence an encoding run emits is
\* PROMOTER ++ body ++ TERMINATOR ++ MARKER, 24 characters longer than the
\* body, and the slice the decoding run takes of it is that body.
FrameStructure ==
    [][/\ call'.op \in {"doStringEncode", "doFileEncode"}
           => /\ locals'.finalEncoded
                      = PROMOTER \o locals'.encoded \o TERMINATOR \o MARKER
              /\ Len(locals'.finalEncoded) = 24 + Len(locals'.encoded)
              /\ call'.op = "doStringEncode"
                     => stdout'[1].text = locals'.finalEncoded
              /\ call'.op = "doFileEncode"
                     => written'[1].content = locals'.finalEncoded
       /\ DecodesLastEncoding
           => /\ "cleanDNA" \in DOMAIN locals'
              /\ locals'.cleanDNA = locals.encoded]_vars

FrameStructureWitness ==
    /\ call.op = "doStringDecode"
    /\ "cleanDNA" \in DOMAIN locals
    /\ Len(locals.cleanDNA) = 36
    /\ \E T \in Texts : call.arg = doStringEncode(T).stdout[1].text

\* C10: Padding discipline: the padding loop appends at most 2 bytes, all
\* spaces, none when the length is a multiple of 3, keeps the payload as a
\* prefix, and stops at the smallest length >= the payload's for which
\* (4 * length) mod 3 = 0.
PaddingDiscipline ==
    call.op = "messageToBinary"
        => LET message == call.arg
               padded == locals.paddedMessage
           IN  /\ Len(padded) - Len(message) \in 0..2
               /\ Len(message) % 3 = 0 => padded = message
               /\ SubSeq(padded, 1, Len(message)) = message
               /\ \A i \in (Len(message) + 1)..Len(padded) : padded[i] = 32
               /\ (4 * Len(padded)) % 3 = 0
               /\ \A n \in Len(message)..(Len(padded) - 1) : (4 * n) % 3 # 0
               /\ Len(ret) = 8 * Len(padded)

PaddingDisciplineWitness ==
    /\ call.op = "messageToBinary"
    /\ Len(call.arg) = 1
    /\ locals.paddedMessage = call.arg \o <<Space, Space>>

=============================================================================
